---------------------------- MODULE Spec2Model ----------------------------
(***************************************************************************)
(* A model of src/loader.ts of laravel-vue-i18n: the PHP array-literal     *)
(* parser (parse, parseItem), the dot-path flattener (convertToDotsSyntax),*)
(* the directory pass (readThroughDir, parseAll, mergeVendorTranslations,  *)
(* parsePackage) and the emitter (prepareExtendedParsedLangFiles,          *)
(* mergeData, generateFiles).                                              *)
(*                                                                         *)
(* Strings are sequences of one-character strings, so that includes(),     *)
(* replace(), the extension-stripping regular expression and key           *)
(* concatenation are computed, not assumed.  A JavaScript object is the    *)
(* sequence of its own enumerable [key, value] pairs in Object.entries     *)
(* order.  A JavaScript value is a tagged record:                          *)
(*   [t |-> "str", v |-> chars]     a string                               *)
(*   [t |-> "null"]                 null                                   *)
(*   [t |-> "num", n |-> 0]         a number (only 0 arises: null + null)  *)
(*   [t |-> "obj", e |-> pairs]     a plain object                         *)
(*   [t |-> "arr", items |-> vals]  an array                               *)
(***************************************************************************)
EXTENDS Naturals, Sequences, FiniteSets

VARIABLES
    pc,             \* position of the run
    content,        \* parse: the parsed source of one language file (its top-level statements)
    items,          \* parse: the value parseItem returned for the returned array
    flat,           \* parse: the Flat Translation Map parse returned
    folderPath,     \* parseAll: the directory tree at folderPath, or Missing
    packageName,    \* parsePackage: the package name
    data,           \* parseAll: its local `data`, a list of {folder, translations}
    vendorTranslations, \* parseAll: its local `vendorTranslations`, or NoVendor
    parsed,         \* parseAll: the records it returned
    packageParsed,  \* parsePackage: the records it returned
    langPaths,      \* prepareExtendedParsedLangFiles: the directory trees of langPaths
    packages,       \* prepareExtendedParsedLangFiles: the packages {name, langPath}
    records,        \* the list prepareExtendedParsedLangFiles builds
    merged,         \* generateFiles: the records mergeData returned
    outDirExists,   \* generateFiles: whether the target directory exists
    written         \* generateFiles: the files written, a list of {name, text}

vars == <<pc, content, items, flat, folderPath, packageName, data, vendorTranslations,
          parsed, packageParsed, langPaths, packages, records, merged, outDirExists,
          written>>

---------------------------------------------------------------------------
(* Bounds of the model.                                                    *)

\* total number of array items in a returned array literal (SpecParse)
MaxEntries == 3
\* number of entries of the top-level language directory (SpecParseAll)
MaxTop == 3
\* number of language paths and of packages (Spec)
MaxPaths == 2

---------------------------------------------------------------------------
(* JavaScript strings.                                                     *)

\* s.includes(pat) / s.indexOf(pat): pat occurs in s at position i (1-based)
OccursAt(s, pat, i) ==
    /\ i + Len(pat) - 1 <= Len(s)
    /\ SubSeq(s, i, i + Len(pat) - 1) = pat

includes(s, pat) == \E i \in 1..(Len(s) + 1) : OccursAt(s, pat, i)

indexOf(s, pat) ==
    CHOOSE i \in 1..(Len(s) + 1) :
        /\ OccursAt(s, pat, i)
        /\ \A j \in 1..(i - 1) : ~OccursAt(s, pat, j)

\* s.replace(pat, rep) with a string pattern: the first occurrence only
replace(s, pat, rep) ==
    IF ~includes(s, pat) THEN s
    ELSE LET i == indexOf(s, pat)
         IN  SubSeq(s, 1, i - 1) \o rep \o SubSeq(s, i + Len(pat), Len(s))

Letters == {"a", "b", "c", "d", "e", "f", "g", "h", "i", "j", "k", "l", "m",
            "n", "o", "p", "q", "r", "s", "t", "u", "v", "w", "x", "y", "z"}
Digits == <<"0", "1", "2", "3", "4", "5", "6", "7", "8", "9">>

\* the class \w of a regular expression
IsWordChar(c) == c \in Letters \/ c = "_" \/ \E d \in 1..Len(Digits) : Digits[d] = c

\* name.replace(/\.\w+$/, ''): a trailing "." followed by one or more word
\* characters is removed
stripExtension(name) ==
    LET dots == {i \in 1..(Len(name) - 1) :
                    /\ name[i] = "."
                    /\ \A j \in (i + 1)..Len(name) : IsWordChar(name[j])}
    IN  IF dots = {} THEN name
        ELSE SubSeq(name, 1, (CHOOSE i \in dots : TRUE) - 1)

\* the UTF-16 code unit of the characters that occur in directory names
CharCode(c) ==
    CASE c = "." -> 46
      [] c = ":" -> 58
      [] c = "_" -> 95
      [] OTHER -> 96 + (CHOOSE n \in 1..26 :
                          <<"a", "b", "c", "d", "e", "f", "g", "h", "i", "j", "k", "l", "m",
                            "n", "o", "p", "q", "r", "s", "t", "u", "v", "w", "x", "y", "z">>[n] = c)

\* a < b in the order Array.prototype.sort() uses without a comparator
RECURSIVE StringLess(_, _)
StringLess(a, b) ==
    IF b = <<>> THEN FALSE
    ELSE IF a = <<>> THEN TRUE
    ELSE IF a[1] # b[1] THEN CharCode(a[1]) < CharCode(b[1])
    ELSE StringLess(Tail(a), Tail(b))

---------------------------------------------------------------------------
(* JavaScript values and objects.                                          *)

Str(s) == [t |-> "str", v |-> s]
Null == [t |-> "null"]
Num(k) == [t |-> "num", n |-> k]
Obj(pairs) == [t |-> "obj", e |-> pairs]
Arr(vals) == [t |-> "arr", items |-> vals]
EmptyObject == Obj(<<>>)

\* Object.keys(o), as a set
Keys(o) == {o.e[i][1] : i \in 1..Len(o.e)}
Has(o, k) == k \in Keys(o)
\* o[k], for an own key k
Get(o, k) == o.e[CHOOSE i \in 1..Len(o.e) : o.e[i][1] = k][2]

\* a canonical array index ("0", "1", ...): objects list these keys first, in
\* ascending order (one digit suffices here: arrays hold at most MaxEntries items)
IsIndexKey(k) == Len(k) = 1 /\ \E d \in 1..Len(Digits) : Digits[d] = k[1]
IndexOf(k) == CHOOSE d \in 1..Len(Digits) : Digits[d] = k[1]

\* o[k] = v: an own key keeps its place; a new index key goes among the index
\* keys in ascending order; any other new key goes last
Put(o, k, v) ==
    IF Has(o, k)
    THEN Obj([i \in 1..Len(o.e) |-> IF o.e[i][1] = k THEN <<k, v>> ELSE o.e[i]])
    ELSE IF IsIndexKey(k)
    THEN LET before == {i \in 1..Len(o.e) :
                           IsIndexKey(o.e[i][1]) /\ IndexOf(o.e[i][1]) < IndexOf(k)}
             n == Cardinality(before)
         IN  Obj(SubSeq(o.e, 1, n) \o << <<k, v>> >> \o SubSeq(o.e, n + 1, Len(o.e)))
    ELSE Obj(Append(o.e, <<k, v>>))

\* Object.entries as it would be if an array had no enumerable positions
ObjectEntries_NoPositions(value) ==
    CASE value.t = "obj" -> value.e
      [] OTHER -> <<>>

\* Object.entries(value)
ObjectEntries(value) ==
    CASE value.t = "obj" -> value.e
      [] value.t = "arr" -> [i \in 1..Len(value.items) |-> << <<Digits[i]>>, value.items[i] >>]
      [] OTHER -> <<>>

\* { ...a, ...b } and Object.assign({}, a, b), for an object a
RECURSIVE PutAll(_, _)
PutAll(o, pairs) ==
    IF pairs = <<>> THEN o
    ELSE PutAll(Put(o, pairs[1][1], pairs[1][2]), Tail(pairs))

Spread(a, b) == PutAll(a, ObjectEntries(b))

\* String(value), as the operator + converts an operand
ToString(value) ==
    CASE value.t = "str" -> value.v
      [] value.t = "null" -> <<"n", "u", "l", "l">>
      [] OTHER -> <<"0">>

\* left + right
Plus(left, right) ==
    IF left.t = "str" \/ right.t = "str"
    THEN Str(ToString(left) \o ToString(right))
    ELSE Num(0)

---------------------------------------------------------------------------
(* The syntax tree php-parser hands to parse.                              *)

String(s) == [kind |-> "string", value |-> s]
NullKeyword == [kind |-> "nullkeyword"]
Bin(l, r) == [kind |-> "bin", left |-> l, right |-> r]
NoKey == [kind |-> "none"]
Entry(k, v) == [kind |-> "entry", key |-> k, value |-> v]
Array(its) == [kind |-> "array", items |-> its]
Return(e) == [kind |-> "return", expr |-> e]
Statement == [kind |-> "expressionstatement"]

---------------------------------------------------------------------------
(* parseItem, convertToDotsSyntax, parse.                                  *)

RECURSIVE parseItem(_)
RECURSIVE parseItems(_)
\* expr.items.map((item) => parseItem(item))
parseItems(its) ==
    IF its = <<>> THEN <<>> ELSE <<parseItem(its[1])>> \o parseItems(Tail(its))

\* items.reduce((acc, val) => Object.assign({}, acc, val), {})
RECURSIVE reduceAssign(_, _)
reduceAssign(acc, vals) ==
    IF vals = <<>> THEN acc
    ELSE reduceAssign(Spread(Spread(EmptyObject, acc), vals[1]), Tail(vals))

parseItem(expr) ==
    CASE expr.kind = "string" -> Str(expr.value)
      [] expr.kind = "nullkeyword" -> Null
      [] expr.kind = "array" ->
            IF \A i \in 1..Len(expr.items) : expr.items[i].key # NoKey
            THEN reduceAssign(EmptyObject, parseItems(expr.items))
            ELSE Arr(parseItems(expr.items))
      [] expr.kind = "bin" -> Plus(parseItem(expr.left), parseItem(expr.right))
      [] OTHER ->
            IF expr.key # NoKey
            THEN Obj(<< <<expr.key.value, parseItem(expr.value)>> >>)
            ELSE parseItem(expr.value)

RECURSIVE flatten(_, _)
RECURSIVE flattenEntries(_, _, _)
\* flatten's forEach as it would be with the "." left out of the nested context
flattenEntries_NoSeparator(entries, context, acc) ==
    IF entries = <<>> THEN acc
    ELSE LET key == entries[1][1]
             value == entries[1][2]
         IN  flattenEntries(Tail(entries), context,
                 IF value.t = "str"
                 THEN Put(acc, context \o key, value)
                 ELSE PutAll(acc, flatten(value, context \o key).e))

\* flatten's forEach as it would be if null were recorded like a string
flattenEntries_KeepNull(entries, context, acc) ==
    IF entries = <<>> THEN acc
    ELSE LET key == entries[1][1]
             value == entries[1][2]
         IN  flattenEntries(Tail(entries), context,
                 IF value.t \in {"str", "null"}
                 THEN Put(acc, context \o key, value)
                 ELSE PutAll(acc, flatten(value, context \o key \o <<".">>).e))

\* the forEach of flatten over Object.entries(items), `acc` being `data`
flattenEntries(entries, context, acc) ==
    IF entries = <<>> THEN acc
    ELSE LET key == entries[1][1]
             value == entries[1][2]
         IN  flattenEntries(Tail(entries), context,
                 IF value.t = "str"
                 THEN Put(acc, context \o key, value)
                 ELSE PutAll(acc, flatten(value, context \o key \o <<".">>).e))

flatten(list, context) ==
    IF list.t = "null" THEN EmptyObject
    ELSE flattenEntries(ObjectEntries(list), context, EmptyObject)

convertToDotsSyntax(list) == flatten(list, <<>>)

\* .children.filter((child) => child.kind === 'return')[0]
firstReturn(children) ==
    LET rets == {i \in 1..Len(children) : children[i].kind = "return"}
    IN  IF rets = {} THEN <<>>
        ELSE <<children[CHOOSE i \in rets : \A j \in rets : i <= j]>>

\* arr?.expr?.kind === 'array'
returnsArray(children) ==
    /\ firstReturn(children) # <<>>
    /\ firstReturn(children)[1].expr.kind = "array"

parse(children) ==
    IF ~returnsArray(children) THEN EmptyObject
    ELSE convertToDotsSyntax(parseItem(firstReturn(children)[1].expr))

---------------------------------------------------------------------------
(* The file system: a directory is the list readdirSync returns, each entry *)
(* a [name, node] pair; a file holds its parsed source.                     *)

Dir(entries) == [t |-> "dir", e |-> entries]
File(children) == [t |-> "file", content |-> children]
Missing == [t |-> "missing"]

\* fs.statSync(...).isDirectory()
isDirectory(node) == node.t = "dir"

RECURSIVE readThroughDir(_)
RECURSIVE readEntries(_, _)
\* the forEach of readThroughDir over fs.readdirSync(dir), `acc` being `data`
readEntries(entries, acc) ==
    IF entries = <<>> THEN acc
    ELSE LET file == entries[1][1]
             node == entries[1][2]
         IN  readEntries(Tail(entries),
                 IF isDirectory(node)
                 THEN Put(acc, stripExtension(file), readThroughDir(node))
                 ELSE Put(acc, stripExtension(file), parse(node.content)))

readThroughDir(dir) == readEntries(dir.e, EmptyObject)

\* Array.prototype.sort() on strings: insertion into a sorted list
RECURSIVE insertSorted(_, _)
insertSorted(s, sorted) ==
    IF sorted = <<>> THEN <<s>>
    ELSE IF StringLess(s, sorted[1]) THEN <<s>> \o sorted
    ELSE <<sorted[1]>> \o insertSorted(s, Tail(sorted))

RECURSIVE sort(_)
sort(names) == IF names = <<>> THEN <<>> ELSE insertSorted(names[1], sort(Tail(names)))

\* readdirSync(folderPath).filter((file) => statSync(...).isDirectory())
RECURSIVE directoriesOf(_)
directoriesOf(entries) ==
    IF entries = <<>> THEN <<>>
    ELSE IF isDirectory(entries[1][2]) THEN <<entries[1][1]>> \o directoriesOf(Tail(entries))
    ELSE directoriesOf(Tail(entries))

\* the node of the entry called name
entryNamed(dir, name) == dir.e[CHOOSE i \in 1..Len(dir.e) : dir.e[i][1] = name][2]

vendor == <<"v", "e", "n", "d", "o", "r">>
NoVendor == [t |-> "none"]

\* parseAll, lines 36 to 51: one {folder, translations} per sorted directory
readFolders(dir) ==
    LET folders == sort(directoriesOf(dir.e))
    IN  [i \in 1..Len(folders) |->
            [folder |-> folders[i],
             translations |-> convertToDotsSyntax(readThroughDir(entryNamed(dir, folders[i])))]]

\* the reduce of mergeVendorTranslations over the filtered vendor entries
RECURSIVE vendorReduce(_, _, _)
\* the reduce as it would be with the filter matching `${folder}.`, the
\* leading "." left out
vendorReduce_NoLeadingDot(entries, folder, acc) ==
    IF entries = <<>> THEN acc
    ELSE LET key == entries[1][1]
             dotted == <<".">> \o folder \o <<".">>
         IN  vendorReduce(Tail(entries), folder,
                 IF includes(key, folder \o <<".">>)
                 THEN Put(Spread(EmptyObject, acc), replace(key, dotted, <<":", ":">>), entries[1][2])
                 ELSE acc)

\* the reduce as it would be with the filter left out
vendorReduce_NoFilter(entries, folder, acc) ==
    IF entries = <<>> THEN acc
    ELSE LET key == entries[1][1]
             dotted == <<".">> \o folder \o <<".">>
         IN  vendorReduce(Tail(entries), folder,
                 Put(Spread(EmptyObject, acc), replace(key, dotted, <<":", ":">>), entries[1][2]))

vendorReduce(entries, folder, acc) ==
    IF entries = <<>> THEN acc
    ELSE LET key == entries[1][1]
             dotted == <<".">> \o folder \o <<".">>
         IN  vendorReduce(Tail(entries), folder,
                 IF includes(key, dotted)
                 THEN Put(Spread(EmptyObject, acc), replace(key, dotted, <<":", ":">>), entries[1][2])
                 ELSE acc)

\* the merge as it would be with the vendor entries spread first
mergeVendorTranslations_VendorFirst(folder, translations, vendorT) ==
    Spread(Spread(EmptyObject, vendorReduce(ObjectEntries(vendorT), folder, EmptyObject)),
           translations)

mergeVendorTranslations(folder, translations, vendorT) ==
    Spread(Spread(EmptyObject, translations),
           vendorReduce(ObjectEntries(vendorT), folder, EmptyObject))

\* data.findIndex(({ folder }) => folder === 'vendor'), 0 for -1
vendorIndex(d) ==
    IF \E i \in 1..Len(d) : d[i].folder = vendor
    THEN CHOOSE i \in 1..Len(d) : d[i].folder = vendor /\ \A j \in 1..(i - 1) : d[j].folder # vendor
    ELSE 0

\* data.splice(vendorIndex, 1)
splice(d, i) == SubSeq(d, 1, i - 1) \o SubSeq(d, i + 1, Len(d))

\* parseAll, lines 53 to 62: `data` after the vendor stage
mergeVendor(d) ==
    IF vendorIndex(d) = 0 THEN d
    ELSE LET vendorT == d[vendorIndex(d)].translations
             rest == splice(d, vendorIndex(d))
         IN  [i \in 1..Len(rest) |->
                 [folder |-> rest[i].folder,
                  translations |-> mergeVendorTranslations(rest[i].folder, rest[i].translations, vendorT)]]

\* `php_${folder}.json`
fileName(folder) == <<"p", "h", "p", "_">> \o folder \o <<".", "j", "s", "o", "n">>

\* parseAll, lines 64 to 73: empty maps filtered out, the rest named
RECURSIVE filterAndName(_)
\* the same with the filter left out
filterAndName_NoFilter(d) ==
    IF d = <<>> THEN <<>>
    ELSE <<[name |-> fileName(d[1].folder), translations |-> d[1].translations]>>
             \o filterAndName(Tail(d))

filterAndName(d) ==
    IF d = <<>> THEN <<>>
    ELSE IF Len(d[1].translations.e) > 0
    THEN <<[name |-> fileName(d[1].folder), translations |-> d[1].translations]>>
             \o filterAndName(Tail(d))
    ELSE filterAndName(Tail(d))

parseAll(path) ==
    IF path = Missing THEN <<>>
    ELSE filterAndName(mergeVendor(readFolders(path)))

\* the reduce of parsePackage over Object.entries(langFile.translations)
RECURSIVE prefixReduce(_, _, _)
\* the reduce as it would be with a single ":" between package and key
prefixReduce_OneColon(entries, name, acc) ==
    IF entries = <<>> THEN acc
    ELSE prefixReduce(Tail(entries), name,
             Put(Spread(EmptyObject, acc), name \o <<":">> \o entries[1][1], entries[1][2]))

prefixReduce(entries, name, acc) ==
    IF entries = <<>> THEN acc
    ELSE prefixReduce(Tail(entries), name,
             Put(Spread(EmptyObject, acc), name \o <<":", ":">> \o entries[1][1], entries[1][2]))

\* the map of parsePackage over what parseAll returned
prefixRecords(langFiles, name) ==
    [i \in 1..Len(langFiles) |->
        [name |-> langFiles[i].name,
         translations |-> prefixReduce(ObjectEntries(langFiles[i].translations), name, EmptyObject)]]

parsePackage(langPath, name) == prefixRecords(parseAll(langPath), name)

---------------------------------------------------------------------------
(* The emitter.                                                            *)

\* the forEach of mergeData, `obj` being its local object keyed by name
RECURSIVE mergeInto(_, _)
\* the same with the record spread before what was gathered
mergeInto_EarlierWins(d, obj) ==
    IF d = <<>> THEN obj
    ELSE LET name == d[1].name
             o1 == IF ~Has(obj, name) THEN Put(obj, name, EmptyObject) ELSE obj
         IN  mergeInto(Tail(d),
                 Put(o1, name, Spread(Spread(EmptyObject, d[1].translations), Get(o1, name))))

mergeInto(d, obj) ==
    IF d = <<>> THEN obj
    ELSE LET name == d[1].name
             o1 == IF ~Has(obj, name) THEN Put(obj, name, EmptyObject) ELSE obj
         IN  mergeInto(Tail(d),
                 Put(o1, name, Spread(Spread(EmptyObject, Get(o1, name)), d[1].translations)))

mergeData(d) ==
    LET obj == mergeInto(d, EmptyObject)
    IN  [i \in 1..Len(obj.e) |-> [name |-> obj.e[i][1], translations |-> obj.e[i][2]]]

\* JSON.stringify of a string, of null and of an object of those (the
\* characters of the model need no escaping)
RECURSIVE stringifyEntries(_)
stringifyValue(value) ==
    IF value.t = "str" THEN <<"\"">> \o value.v \o <<"\"">>
    ELSE <<"n", "u", "l", "l">>

stringifyEntries(entries) ==
    IF entries = <<>> THEN <<>>
    ELSE <<"\"">> \o entries[1][1] \o <<"\"", ":">> \o stringifyValue(entries[1][2])
         \o (IF Len(entries) > 1 THEN <<",">> ELSE <<>>)
         \o stringifyEntries(Tail(entries))

stringify(o) == <<"{">> \o stringifyEntries(o.e) \o <<"}">>

\* the forEach of generateFiles: one file per merged record
writeFiles(d) == [i \in 1..Len(d) |-> [name |-> d[i].name, text |-> stringify(d[i].translations)]]

---------------------------------------------------------------------------
(* The language files of the model: returned array literals of at most     *)
(* MaxEntries items in all, nested two deep.                                *)

TopKeys == {String(<<"a">>), String(<<"a", ".", "b">>), NoKey}
InnerKeys == {String(<<"b">>), NoKey}
TopLeaves == {String(<<"x">>), NullKeyword, Bin(String(<<"x">>), String(<<"y">>))}
InnerLeaves == {String(<<"y">>), NullKeyword}

InnerEntries == {Entry(k, v) : k \in InnerKeys, v \in InnerLeaves}

\* the top-level items that hold n items in all, themselves included
TopEntriesOfSize(n) ==
    IF n = 1
    THEN {Entry(k, v) : k \in TopKeys, v \in TopLeaves \cup {Array(<<>>)}}
    ELSE {Entry(k, Array(its)) : k \in TopKeys, its \in [1..(n - 1) -> InnerEntries]}

\* the item lists that hold at most n items in all
RECURSIVE ItemLists(_)
ItemLists(n) ==
    {<<>>} \cup UNION {{<<e>> \o rest : e \in TopEntriesOfSize(k), rest \in ItemLists(n - k)} :
                         k \in 1..n}

SimpleArray == Array(<<Entry(String(<<"a">>), String(<<"x">>))>>)

Programs ==
    {<<Return(Array(its))>> : its \in ItemLists(MaxEntries)}
        \cup {<<>>,
              <<Statement>>,
              <<Return(String(<<"x">>))>>,
              <<Statement, Return(SimpleArray)>>,
              <<Return(String(<<"x">>)), Return(SimpleArray)>>,
              <<Return(SimpleArray), Return(Array(<<>>))>>,
              <<Return(Array(<<Entry(String(<<"a">>), Bin(NullKeyword, NullKeyword)),
                               Entry(String(<<"b">>), Bin(String(<<"x">>), NullKeyword))>>))>>}

---------------------------------------------------------------------------
(* parse(content), a step at a time.                                       *)

Idle == <<>>

InitParse ==
    /\ pc = "parse"
    /\ content \in Programs
    /\ items = Null
    /\ flat = EmptyObject
    /\ folderPath = Missing
    /\ packageName = Idle
    /\ data = <<>>
    /\ vendorTranslations = NoVendor
    /\ parsed = <<>>
    /\ packageParsed = <<>>
    /\ langPaths = <<>>
    /\ packages = <<>>
    /\ records = <<>>
    /\ merged = <<>>
    /\ outDirExists = FALSE
    /\ written = <<>>

\* lines 101 to 103: no returned array, the empty map
ParseNothing ==
    /\ pc = "parse"
    /\ ~returnsArray(content)
    /\ flat' = EmptyObject
    /\ pc' = "parsed"
    /\ UNCHANGED <<content, items, folderPath, packageName, data, vendorTranslations, parsed,
                   packageParsed, langPaths, packages, records, merged, outDirExists,
                   written>>

\* line 105, the argument: parseItem(arr.expr)
ParseItem ==
    /\ pc = "parse"
    /\ returnsArray(content)
    /\ items' = parseItem(firstReturn(content)[1].expr)
    /\ pc' = "convert"
    /\ UNCHANGED <<content, flat, folderPath, packageName, data, vendorTranslations, parsed,
                   packageParsed, langPaths, packages, records, merged, outDirExists,
                   written>>

\* line 105, the call: convertToDotsSyntax(...)
ConvertToDots ==
    /\ pc = "convert"
    /\ flat' = convertToDotsSyntax(items)
    /\ pc' = "parsed"
    /\ UNCHANGED <<content, items, folderPath, packageName, data, vendorTranslations, parsed,
                   packageParsed, langPaths, packages, records, merged, outDirExists,
                   written>>

NextParse == ParseNothing \/ ParseItem \/ ConvertToDots

SpecParse == InitParse /\ [][NextParse]_vars

---------------------------------------------------------------------------
(* The language directories of the model.                                  *)

en == <<"e", "n">>
fr == <<"f", "r">>
en_json == <<"e", "n", ".", "j", "s", "o", "n">>
m_php == <<"m", ".", "p", "h", "p">>
m_txt == <<"m", ".", "t", "x", "t">>
x_php == <<"x", ".", "p", "h", "p">>
y_php == <<"y", ".", "p", "h", "p">>
en_php == <<"e", "n", ".", "p", "h", "p">>
sub_d == <<"s", "u", "b", ".", "d">>
acme == <<"a", "c", "m", "e">>
acme_m_php == <<"a", "c", "m", "e", ":", ":", "m", ".", "p", "h", "p">>

\* a language file: <?php return [k => v];
Returns(k, v) == File(<<Return(Array(<<Entry(String(k), String(v))>>))>>)
\* a directory of one entry
Only(name, node) == Dir(<< <<name, node>> >>)

\* what a language folder such as en/ may hold
EnDirs ==
    {Dir(<<>>),
     Only(m_php, Returns(<<"t">>, <<"n">>)),
     Only(x_php, Returns(<<"y", ":", ":", "z">>, <<"n">>)),
     Only(m_php, File(<<Statement>>)),
     Only(m_php, File(<<Return(Array(<<Entry(String(<<"t">>), NullKeyword)>>))>>)),
     Only(sub_d, Only(m_php, Returns(<<"t">>, <<"n">>))),
     Dir(<< <<m_php, Returns(<<"t">>, <<"n">>)>>, <<m_txt, Returns(<<"u">>, <<"o">>)>> >>),
     Dir(<< <<x_php, Returns(<<"y", ":", ":", "z">>, <<"n">>)>>,
            <<m_php, Returns(<<"t">>, <<"n">>)>> >>)}

FrDirs ==
    {Dir(<<>>),
     Only(m_php, Returns(<<"t">>, <<"f">>)),
     Only(acme_m_php, Returns(<<"t">>, <<"f">>))}

\* what vendor/ may hold
VendorDirs ==
    {Dir(<<>>),
     Only(acme, Only(en, Only(m_php, Returns(<<"t">>, <<"v">>)))),
     Only(<<"x">>, Only(<<"y">>, Only(en_php, Returns(<<"z">>, <<"v">>)))),
     Only(acme, Only(fr, Only(m_php, Returns(<<"t">>, <<"w">>)))),
     Only(acme, Dir(<< <<fr, Only(m_php, Returns(<<"t">>, <<"w">>))>>,
                       <<en, Only(m_php, Returns(<<"t">>, <<"v">>))>> >>)),
     Only(en, Only(m_php, Returns(<<"t">>, <<"v">>))),
     Only(<<"x">>, Only(en, Only(en, Only(m_php, Returns(<<"t">>, <<"v">>))))),
     Dir(<< <<<<"a">>, Only(en_php, Returns(<<"b", ":", ":", "c">>, <<"v">>))>>,
            <<<<"a", ":", ":", "b">>, Only(en_php, Returns(<<"c">>, <<"w">>))>> >>),
     Dir(<< <<<<"a", ":", ":", "b">>, Only(en_php, Returns(<<"c">>, <<"w">>))>>,
            <<<<"a">>, Only(en_php, Returns(<<"b", ":", ":", "c">>, <<"v">>))>> >>)}

TopNames == {en, fr, vendor, en_json}

ContentsOf(name) ==
    CASE name = en -> EnDirs
      [] name = fr -> FrDirs
      [] name = vendor -> VendorDirs
      [] OTHER -> {Returns(<<"t">>, <<"j">>)}

\* the listings of distinct names, at most n long
Listings(n) ==
    {l \in UNION {[1..k -> TopNames] : k \in 0..n} :
        \A i, j \in 1..Len(l) : i # j => l[i] # l[j]}

\* the entry lists a listing of names may stand for
RECURSIVE EntriesFor(_)
EntriesFor(l) ==
    IF l = <<>> THEN {<<>>}
    ELSE {<< <<l[1], node>> >> \o rest : node \in ContentsOf(l[1]), rest \in EntriesFor(Tail(l))}

LangDirs == UNION {{Dir(es) : es \in EntriesFor(l)} : l \in Listings(MaxTop)}

PackageNames == {acme, <<"x">>}

---------------------------------------------------------------------------
(* parseAll(folderPath) and parsePackage(folderPath, packageName), a step  *)
(* at a time.                                                              *)

InitParseAll ==
    /\ pc = "exists"
    /\ folderPath \in LangDirs \cup {Missing}
    /\ content = <<>>
    /\ items = Null
    /\ flat = EmptyObject
    /\ packageName = Idle
    /\ data = <<>>
    /\ vendorTranslations = NoVendor
    /\ parsed = <<>>
    /\ packageParsed = <<>>
    /\ langPaths = <<>>
    /\ packages = <<>>
    /\ records = <<>>
    /\ merged = <<>>
    /\ outDirExists = FALSE
    /\ written = <<>>

\* lines 32 to 34: a missing path
ReturnNothing ==
    /\ pc = "exists"
    /\ folderPath = Missing
    /\ parsed' = <<>>
    /\ pc' = "returned"
    /\ UNCHANGED <<content, items, flat, folderPath, packageName, data, vendorTranslations,
                   packageParsed, langPaths, packages, records, merged, outDirExists,
                   written>>

\* lines 36 to 51
ReadFolders ==
    /\ pc = "exists"
    /\ folderPath # Missing
    /\ data' = readFolders(folderPath)
    /\ pc' = "vendor"
    /\ UNCHANGED <<content, items, flat, folderPath, packageName, vendorTranslations, parsed,
                   packageParsed, langPaths, packages, records, merged, outDirExists,
                   written>>

\* lines 54 to 62, a vendor folder found
MergeVendor ==
    /\ pc = "vendor"
    /\ vendorIndex(data) # 0
    /\ vendorTranslations' = data[vendorIndex(data)].translations
    /\ data' = mergeVendor(data)
    /\ pc' = "filter"
    /\ UNCHANGED <<content, items, flat, folderPath, packageName, parsed, packageParsed,
                   langPaths, packages, records, merged, outDirExists, written>>

\* lines 54 to 56, no vendor folder
SkipVendor ==
    /\ pc = "vendor"
    /\ vendorIndex(data) = 0
    /\ pc' = "filter"
    /\ UNCHANGED <<content, items, flat, folderPath, packageName, data, vendorTranslations,
                   parsed, packageParsed, langPaths, packages, records, merged,
                   outDirExists, written>>

\* lines 64 to 73
FilterAndName ==
    /\ pc = "filter"
    /\ parsed' = filterAndName(data)
    /\ pc' = "returned"
    /\ UNCHANGED <<content, items, flat, folderPath, packageName, data, vendorTranslations,
                   packageParsed, langPaths, packages, records, merged, outDirExists,
                   written>>

\* lines 91 to 95: parsePackage maps what parseAll returned
PrefixPackage ==
    /\ pc = "returned"
    /\ \E name \in PackageNames :
           /\ packageName' = name
           /\ packageParsed' = prefixRecords(parsed, name)
    /\ pc' = "prefixed"
    /\ UNCHANGED <<content, items, flat, folderPath, data, vendorTranslations, parsed,
                   langPaths, packages, records, merged, outDirExists, written>>

NextParseAll ==
    ReturnNothing \/ ReadFolders \/ MergeVendor \/ SkipVendor \/ FilterAndName \/ PrefixPackage

SpecParseAll == InitParseAll /\ [][NextParseAll]_vars

---------------------------------------------------------------------------
(* prepareExtendedParsedLangFiles and generateFiles.                       *)

\* (packages || []).flatMap(pkg => parsePackage(pkg.langPath, pkg.name))
RECURSIVE flatMapPackages(_)
flatMapPackages(pkgs) ==
    IF pkgs = <<>> THEN <<>>
    ELSE parsePackage(pkgs[1].langPath, pkgs[1].name) \o flatMapPackages(Tail(pkgs))

\* langPaths.flatMap(langPath => parseAll(langPath))
RECURSIVE flatMapLangPaths(_)
flatMapLangPaths(paths) ==
    IF paths = <<>> THEN <<>>
    ELSE parseAll(paths[1]) \o flatMapLangPaths(Tail(paths))

\* the list as it would be with the language paths spread first
prepareExtendedParsedLangFiles_PathsFirst(paths, pkgs) ==
    flatMapLangPaths(paths) \o flatMapPackages(pkgs)

prepareExtendedParsedLangFiles(paths, pkgs) ==
    flatMapPackages(pkgs) \o flatMapLangPaths(paths)

\* the language paths a project may configure
PathB ==
    Dir(<< <<en, Dir(<< <<y_php, Returns(<<"z">>, <<"m">>)>>,
                        <<m_php, Returns(<<"t">>, <<"n">>)>> >>)>>,
           <<fr, Dir(<<>>)>> >>)
PathC ==
    Dir(<< <<en, Dir(<<>>)>>,
           <<vendor, Only(<<"x">>, Only(en, Only(y_php, Returns(<<"z">>, <<"v">>))))>> >>)
PathD ==
    Dir(<< <<vendor, Only(<<"x">>, Only(en, Only(y_php, Returns(<<"z">>, <<"w">>))))>>,
           <<fr, Only(m_php, File(<<Statement>>))>>,
           <<en, Only(m_php, Returns(<<"t">>, <<"o">>))>> >>)
LangPathChoices == {Missing, PathB, PathC, PathD}

\* the lang directories a package may ship
PackageA == Only(en, Only(y_php, Returns(<<"z">>, <<"p">>)))
PackageB ==
    Dir(<< <<fr, Only(m_php, Returns(<<"t">>, <<"r">>))>>,
           <<en, Only(y_php, Returns(<<"z">>, <<"q">>))>> >>)
PackageChoices ==
    {[name |-> <<"x">>, langPath |-> PackageA],
     [name |-> <<"x">>, langPath |-> PackageB],
     [name |-> acme, langPath |-> PackageB]}

SeqsUpTo(S, n) == UNION {[1..k -> S] : k \in 0..n}

Init ==
    /\ pc = "prepare"
    /\ langPaths \in SeqsUpTo(LangPathChoices, MaxPaths)
    /\ packages \in SeqsUpTo(PackageChoices, MaxPaths)
    /\ outDirExists \in BOOLEAN
    /\ content = <<>>
    /\ items = Null
    /\ flat = EmptyObject
    /\ folderPath = Missing
    /\ packageName = Idle
    /\ data = <<>>
    /\ vendorTranslations = NoVendor
    /\ parsed = <<>>
    /\ packageParsed = <<>>
    /\ records = <<>>
    /\ merged = <<>>
    /\ written = <<>>

\* lines 191 to 195
PrepareExtendedParsedLangFiles ==
    /\ pc = "prepare"
    /\ records' = prepareExtendedParsedLangFiles(langPaths, packages)
    /\ pc' = "generate"
    /\ UNCHANGED <<content, items, flat, folderPath, packageName, data, vendorTranslations,
                   parsed, packageParsed, langPaths, packages, merged, outDirExists,
                   written>>

\* lines 197 to 209
GenerateFiles ==
    /\ pc = "generate"
    /\ LET d == mergeData(records)
       IN  /\ merged' = d
           /\ written' = writeFiles(d)
    /\ outDirExists' = TRUE
    /\ pc' = "generated"
    /\ UNCHANGED <<content, items, flat, folderPath, packageName, data, vendorTranslations,
                   parsed, packageParsed, langPaths, packages, records>>

Next == PrepareExtendedParsedLangFiles \/ GenerateFiles

Spec == Init /\ [][Next]_vars

---------------------------------------------------------------------------
(* What the claims speak of: the leaves of a parsed value and their paths. *)

\* the leaves below node in depth-first Object.entries order, each with the
\* list of segment names that leads to it and whether an array position is
\* among them
RECURSIVE LeafList(_, _, _)
RECURSIVE LeafListOf(_, _, _)
LeafListOf(entries, path, via) ==
    IF entries = <<>> THEN <<>>
    ELSE LeafList(entries[1][2], Append(path, entries[1][1]), via)
             \o LeafListOf(Tail(entries), path, via)

LeafList(node, path, via) ==
    CASE node.t = "obj" -> LeafListOf(node.e, path, via)
      [] node.t = "arr" ->
            LeafListOf([i \in 1..Len(node.items) |-> << <<Digits[i]>>, node.items[i] >>], path, TRUE)
      [] OTHER -> <<[path |-> path, value |-> node, viaArray |-> via]>>

Leaves(node) == LeafList(node, <<>>, FALSE)

\* the segments of a path joined by "."
RECURSIVE DotJoin(_)
DotJoin(path) ==
    IF Len(path) = 1 THEN path[1]
    ELSE path[1] \o <<".">> \o DotJoin(Tail(path))

\* a Nested Translation Tree: a mapping whose values are strings, nulls or
\* such mappings
RECURSIVE IsTree(_)
IsTree(node) ==
    /\ node.t = "obj"
    /\ \A i \in 1..Len(node.e) : node.e[i][2].t \in {"str", "null"} \/ IsTree(node.e[i][2])

\* no segment name of the tree holds a "."
NoDottedSegment(node) ==
    \A i \in 1..Len(Leaves(node)) :
        \A j \in 1..Len(Leaves(node)[i].path) :
            \A c \in 1..Len(Leaves(node)[i].path[j]) : Leaves(node)[i].path[j][c] # "."

\* the positions in the leaf list L of the string leaves whose path joins to k
StringLeavesAt(L, k) == {i \in 1..Len(L) : L[i].value.t = "str" /\ DotJoin(L[i].path) = k}

\* the last of them
LastStringLeafAt(L, k) == CHOOSE i \in StringLeavesAt(L, k) : \A j \in StringLeavesAt(L, k) : j <= i

ParsedArray == pc = "parsed" /\ returnsArray(content)

\* C1 as the spec states it: the keys of convertToDotsSyntax(T) are the
\* dot-joined paths of the string leaves of the Nested Translation Tree T, each
\* key maps to exactly that leaf's value, and each key belongs to exactly one leaf.
C1_OneLeafPerKey ==
    (ParsedArray /\ IsTree(items)) =>
        LET L == Leaves(items)
        IN  /\ Keys(flat) = {DotJoin(L[i].path) : i \in {j \in 1..Len(L) : L[j].value.t = "str"}}
            /\ \A i \in 1..Len(L) :
                   L[i].value.t = "str" => Get(flat, DotJoin(L[i].path)) = L[i].value
            /\ \A k \in Keys(flat) : Cardinality(StringLeavesAt(L, k)) = 1

\* C1, amended: the keys of convertToDotsSyntax(T) are the dot-joined paths of
\* the string leaves of T; each key maps to the value of the last string leaf,
\* in depth-first entry order, whose path joins to it; and when no segment
\* name of T holds a ".", each key belongs to exactly one leaf.
C1_LastLeafPerKey ==
    (ParsedArray /\ IsTree(items)) =>
        LET L == Leaves(items)
        IN  /\ Keys(flat) = {DotJoin(L[i].path) : i \in {j \in 1..Len(L) : L[j].value.t = "str"}}
            /\ \A k \in Keys(flat) : Get(flat, k) = L[LastStringLeafAt(L, k)].value
            /\ NoDottedSegment(items) =>
                   \A k \in Keys(flat) : Cardinality(StringLeavesAt(L, k)) = 1

\* a nested tree with a string leaf two levels down has been flattened
C1_Witness ==
    /\ ParsedArray
    /\ IsTree(items)
    /\ NoDottedSegment(items)
    /\ Has(items, <<"a">>)
    /\ Get(items, <<"a">>).t = "obj"
    /\ Has(flat, <<"a", ".", "b">>)
    /\ Len(flat.e) >= 1

\* the array literal parse hands to parseItem
ReturnedArray == firstReturn(content)[1].expr

\* the positions in the leaf list L of the null leaves
NullLeaves(L) == {i \in 1..Len(L) : L[i].value = Null}

\* a null literal of the returned array becomes a null leaf: under its key
\* when every item is keyed (and no later item has the same key), at its
\* position otherwise
NullLiteralsParseToNull ==
    LET its == ReturnedArray.items
    IN  \A i \in 1..Len(its) :
            its[i].value = NullKeyword =>
                IF \A j \in 1..Len(its) : its[j].key # NoKey
                THEN (\A j \in (i + 1)..Len(its) : its[j].key # its[i].key)
                         => Get(items, its[i].key.value) = Null
                ELSE IF its[i].key = NoKey
                THEN items.items[i] = Null
                ELSE items.items[i] = Obj(<< <<its[i].key.value, Null>> >>)

\* C2 as the spec states it: a null literal parses to a null leaf, and for
\* every path whose leaf in the parsed tree is null the Flat Translation Map
\* holds that path as a key, with the value null.
C2_NullSurvives ==
    (ParsedArray /\ IsTree(items)) =>
        LET L == Leaves(items)
        IN  /\ NullLiteralsParseToNull
            /\ \A i \in NullLeaves(L) :
                   /\ Has(flat, DotJoin(L[i].path))
                   /\ Get(flat, DotJoin(L[i].path)) = Null

\* C2, amended: a null literal parses to a null leaf, and the null leaf is
\* dropped by the flattening: no value of the Flat Translation Map is null,
\* and the path of a null leaf is a key of the map only when a string leaf
\* has the same dot-joined path.
C2_NullDropped ==
    ParsedArray =>
        LET L == Leaves(items)
        IN  /\ NullLiteralsParseToNull
            /\ \A k \in Keys(flat) : Get(flat, k).t = "str"
            /\ \A i \in NullLeaves(L) :
                   Has(flat, DotJoin(L[i].path)) => StringLeavesAt(L, DotJoin(L[i].path)) # {}

\* a tree with a null leaf beside a string leaf has been flattened, and the
\* null leaf's path is no key
C2_Witness ==
    /\ ParsedArray
    /\ IsTree(items)
    /\ Has(items, <<"a">>)
    /\ Get(items, <<"a">>) = Null
    /\ ~Has(flat, <<"a">>)
    /\ Len(flat.e) >= 1

\* the positions in the leaf list L of the string leaves reached through an
\* array position
ArrayStringLeaves(L) == {i \in 1..Len(L) : L[i].value.t = "str" /\ L[i].viaArray}

\* C9 as the spec states it: an array literal with unkeyed items converts to
\* an ordered sequence, and the sequence yields no keys: the keys of the Flat
\* Translation Map are the paths of the string leaves not reached through a
\* sequence position.
C9_ArraysDropped ==
    ParsedArray =>
        LET L == Leaves(items)
        IN  /\ (\E i \in 1..Len(ReturnedArray.items) : ReturnedArray.items[i].key = NoKey)
                   => items.t = "arr"
            /\ Keys(flat) = {DotJoin(L[i].path) :
                                i \in {j \in 1..Len(L) : L[j].value.t = "str" /\ ~L[j].viaArray}}

\* C9, amended: an array literal with an unkeyed item converts to an ordered
\* sequence of as many values, and the flattener reads the sequence as a
\* mapping from the decimal positions "0", "1", ...: every string leaf reached
\* through a position is a key of the Flat Translation Map, the position
\* being a path segment, with the value of the last string leaf of that path.
C9_ArraysIndexed ==
    ParsedArray =>
        LET L == Leaves(items)
        IN  /\ (\E i \in 1..Len(ReturnedArray.items) : ReturnedArray.items[i].key = NoKey)
                   => (items.t = "arr" /\ Len(items.items) = Len(ReturnedArray.items))
            /\ \A i \in ArrayStringLeaves(L) :
                   /\ Has(flat, DotJoin(L[i].path))
                   /\ Get(flat, DotJoin(L[i].path))
                          = L[LastStringLeafAt(L, DotJoin(L[i].path))].value

\* an indexed array of a string and a nested array has been flattened
C9_Witness ==
    /\ ParsedArray
    /\ items.t = "arr"
    /\ Len(items.items) >= 2
    /\ items.items[1] = Str(<<"x">>)
    /\ Has(flat, <<"0">>)
    /\ \E k \in Keys(flat) : Len(k) > 1

---------------------------------------------------------------------------
(* What the claims on parseAll speak of.                                   *)

\* parseAll has returned for a directory that exists
Returned == pc \in {"returned", "prefixed"} /\ folderPath # Missing

\* the top-level directories of folderPath
FolderNames == {folderPath.e[i][1] : i \in {j \in 1..Len(folderPath.e) : folderPath.e[j][2].t = "dir"}}

\* the folder a returned record is named after
FolderOf(record) == CHOOSE F \in FolderNames : fileName(F) = record.name

\* the flattening of a folder's own directory tree
NativeMap(F) == convertToDotsSyntax(readThroughDir(entryNamed(folderPath, F)))

\* k = pre \o pat \o post for some pre and post
HasSubstring(k, pat) ==
    \E n \in 0..Len(k) : n + Len(pat) <= Len(k) /\ \A c \in 1..Len(pat) : k[n + c] = pat[c]

\* k with the first `.F.` replaced by `::`
Rewritten(k, F) ==
    LET pat == <<".">> \o F \o <<".">>
        n == CHOOSE m \in 0..Len(k) :
                 /\ m + Len(pat) <= Len(k)
                 /\ \A c \in 1..Len(pat) : k[m + c] = pat[c]
                 /\ \A l \in 0..(m - 1) : \E c \in 1..Len(pat) : k[l + c] # pat[c]
    IN  [c \in 1..(Len(k) - Len(pat) + 2) |->
            IF c <= n THEN k[c]
            ELSE IF c <= n + 2 THEN ":"
            ELSE k[c + Len(pat) - 2]]

\* the positions of the vendor entries that belong to folder F
VendorEntriesOf(F) ==
    {i \in 1..Len(vendorTranslations.e) :
        HasSubstring(vendorTranslations.e[i][1], <<".">> \o F \o <<".">>)}

\* the positions of the vendor entries whose rewritten key is k
VendorEntriesAt(F, k) ==
    {i \in VendorEntriesOf(F) : Rewritten(vendorTranslations.e[i][1], F) = k}

\* C3 as the spec states it: a key that is both a rewritten vendor key and a
\* key of the folder's own map keeps the folder-native value in the merged map.
C3_NativeWins ==
    (Returned /\ vendorTranslations # NoVendor) =>
        \A i \in 1..Len(parsed) :
            LET F == FolderOf(parsed[i])
            IN  \A k \in Keys(NativeMap(F)) :
                    VendorEntriesAt(F, k) # {}
                        => Get(parsed[i].translations, k) = Get(NativeMap(F), k)

\* C3, amended: a key that is both a rewritten vendor key and a key of the
\* folder's own map takes the vendor value in the merged map (the value of
\* the last vendor entry rewritten to it): the vendor entries are spread last.
C3_VendorWins ==
    (Returned /\ vendorTranslations # NoVendor) =>
        \A i \in 1..Len(parsed) :
            LET F == FolderOf(parsed[i])
            IN  \A k \in Keys(NativeMap(F)) :
                    VendorEntriesAt(F, k) # {}
                        => Get(parsed[i].translations, k)
                               = vendorTranslations.e[
                                     CHOOSE v \in VendorEntriesAt(F, k) :
                                         \A w \in VendorEntriesAt(F, k) : w <= v][2]

\* a folder's own key and a rewritten vendor key coincide, with two values
C3_Witness ==
    /\ Returned
    /\ vendorTranslations # NoVendor
    /\ \E i \in 1..Len(parsed) :
           \E k \in Keys(NativeMap(FolderOf(parsed[i]))) :
               \E v \in VendorEntriesAt(FolderOf(parsed[i]), k) :
                   vendorTranslations.e[v][2] # Get(NativeMap(FolderOf(parsed[i])), k)

\* C5: with a top-level folder "vendor", parseAll returns no record for it,
\* and the keys of each returned folder F are its own keys and, for every
\* vendor key holding `.F.`, that key with the first `.F.` replaced by `::`;
\* the other vendor keys add nothing to F.
C5_VendorKeysAssigned ==
    (Returned /\ vendor \in FolderNames) =>
        /\ vendorTranslations = NativeMap(vendor)
        /\ \A i \in 1..Len(parsed) : parsed[i].name # fileName(vendor)
        /\ \A i \in 1..Len(parsed) :
               LET F == FolderOf(parsed[i])
               IN  Keys(parsed[i].translations)
                       = Keys(NativeMap(F))
                             \cup {Rewritten(vendorTranslations.e[v][1], F) : v \in VendorEntriesOf(F)}

\* a folder has received a vendor key while another vendor key was not its own
C5_Witness ==
    /\ Returned
    /\ vendor \in FolderNames
    /\ \E i \in 1..Len(parsed) :
           /\ parsed[i].name = fileName(en)
           /\ Has(parsed[i].translations, <<"a", "c", "m", "e", ":", ":", "m", ".", "t">>)
           /\ Keys(NativeMap(en)) # {}
           /\ \E v \in 1..Len(vendorTranslations.e) : v \notin VendorEntriesOf(en)

\* C6: without a top-level folder "vendor", and for a folder F none of the
\* vendor keys holds `.F.` of, the map parseAll returns for F is the
\* flattening of F's own directory tree.
C6_VendorNoOp ==
    Returned =>
        \A i \in 1..Len(parsed) :
            LET F == FolderOf(parsed[i])
            IN  (vendor \notin FolderNames \/ VendorEntriesOf(F) = {})
                    => parsed[i].translations = NativeMap(F)

\* a folder is returned beside a vendor folder whose keys are all another's
C6_Witness ==
    /\ Returned
    /\ vendor \in FolderNames
    /\ Len(vendorTranslations.e) >= 1
    /\ \E i \in 1..Len(parsed) :
           /\ parsed[i].name = fileName(en)
           /\ VendorEntriesOf(en) = {}

\* a folder is returned from a directory without a vendor folder
C6_WitnessNoVendor ==
    /\ Returned
    /\ vendor \notin FolderNames
    /\ Len(parsed) >= 2

\* C7: parsePackage returns the records of parseAll, same names in the same
\* order, every key k replaced by `<packageName>::` followed by k, every value
\* unchanged, the number of keys of each record preserved.
C7_PackagePrefix ==
    pc = "prefixed" =>
        /\ packageParsed = parsePackage(folderPath, packageName)
        /\ parsed = parseAll(folderPath)
        /\ Len(packageParsed) = Len(parsed)
        /\ \A i \in 1..Len(parsed) :
               LET own == parsed[i].translations
                   pkg == packageParsed[i].translations
                   prefix == packageName \o <<":", ":">>
               IN  /\ packageParsed[i].name = parsed[i].name
                   /\ Keys(pkg) = {prefix \o k : k \in Keys(own)}
                   /\ \A k \in Keys(own) : Get(pkg, prefix \o k) = Get(own, k)
                   /\ Len(pkg.e) = Len(own.e)

\* a package of two folders, one of them of two keys, has been prefixed
C7_Witness ==
    /\ pc = "prefixed"
    /\ packageName = acme
    /\ Len(packageParsed) >= 2
    /\ \E i \in 1..Len(packageParsed) : Len(packageParsed[i].translations.e) >= 2

---------------------------------------------------------------------------
(* What the claims on the emitter speak of.                                *)

Generated == pc = "generated"

\* the positions in the list rs of the records called name that hold key k
RecordsWith(rs, name, k) ==
    {i \in 1..Len(rs) : rs[i].name = name /\ Has(rs[i].translations, k)}

\* the value of k in the last of them
LastValue(rs, name, k) ==
    Get(rs[CHOOSE i \in RecordsWith(rs, name, k) :
               \A j \in RecordsWith(rs, name, k) : j <= i].translations, k)

\* C4: mergeData returns exactly one record per distinct output name; its keys
\* are the union of the keys of the input records of that name, and each key
\* has the value of the last input record of that name that holds it.
C4_MergeData ==
    Generated =>
        /\ {merged[m].name : m \in 1..Len(merged)} = {records[i].name : i \in 1..Len(records)}
        /\ \A m, n \in 1..Len(merged) : m # n => merged[m].name # merged[n].name
        /\ \A m \in 1..Len(merged) :
               /\ Keys(merged[m].translations)
                      = UNION {Keys(records[i].translations) :
                                  i \in {j \in 1..Len(records) : records[j].name = merged[m].name}}
               /\ \A k \in Keys(merged[m].translations) :
                      Get(merged[m].translations, k) = LastValue(records, merged[m].name, k)

\* two records of one name have been merged: a key of both with two values,
\* a key of the earlier only and a key of the later only
C4_Witness ==
    /\ Generated
    /\ \E i, j \in 1..Len(records) :
           /\ i < j
           /\ records[i].name = records[j].name
           /\ \E k \in Keys(records[i].translations) \cap Keys(records[j].translations) :
                  Get(records[i].translations, k) # Get(records[j].translations, k)
           /\ Keys(records[i].translations) \ Keys(records[j].translations) # {}
           /\ Keys(records[j].translations) \ Keys(records[i].translations) # {}

\* C8: no record that parseAll or parsePackage hands to generateFiles has an
\* empty map, no file is written with the text {}, and paths that are all
\* missing yield no record and no file.
C8_NoEmptyRecord ==
    /\ \A i \in 1..Len(records) : Len(records[i].translations.e) > 0
    /\ \A m \in 1..Len(merged) : Len(merged[m].translations.e) > 0
    /\ \A w \in 1..Len(written) : written[w].text # <<"{", "}">>
    /\ (pc # "prepare" /\ packages = <<>> /\ \A j \in 1..Len(langPaths) : langPaths[j] = Missing)
           => records = <<>>
    /\ (Generated /\ records = <<>>) => written = <<>>

\* files have been written from a path with an empty folder, beside a missing path
C8_Witness ==
    /\ Generated
    /\ Len(langPaths) = 2
    /\ langPaths[1] = Missing
    /\ langPaths[2] = PathB
    /\ Len(written) = 1
    /\ written[1].name = fileName(en)

\* what each language path, and each package, contributes to the list
PathRecords == [j \in 1..Len(langPaths) |-> parseAll(langPaths[j])]
PackageRecords ==
    [j \in 1..Len(packages) |-> parsePackage(packages[j].langPath, packages[j].name)]

\* the lists of a list of lists, one after the other
RECURSIVE Concat(_)
Concat(lists) == IF lists = <<>> THEN <<>> ELSE lists[1] \o Concat(Tail(lists))

\* the positions in the list of lists that produce key k for the name
ProducersOf(lists, name, k) == {j \in 1..Len(lists) : RecordsWith(lists[j], name, k) # {}}

Last(S) == CHOOSE i \in S : \A j \in S : j <= i

\* the value the last producer among the lists gives key k for the name
LastProduced(lists, name, k) ==
    LastValue(lists[Last(ProducersOf(lists, name, k))], name, k)

\* C10: all package records precede all language path records, so of the
\* values produced for a name and a key the emitted one is that of the last
\* language path that produces it, and that of the last package that
\* produces it when no language path does.
C10_Precedence ==
    Generated =>
        LET paths == PathRecords
            pkgs == PackageRecords
        IN  /\ records = Concat(pkgs) \o Concat(paths)
            /\ \A m \in 1..Len(merged) :
                   \A k \in Keys(merged[m].translations) :
                       Get(merged[m].translations, k)
                           = IF ProducersOf(paths, merged[m].name, k) # {}
                             THEN LastProduced(paths, merged[m].name, k)
                             ELSE LastProduced(pkgs, merged[m].name, k)

\* a package and a language path have produced the same name and key, with
\* two values
C10_Witness ==
    /\ Generated
    /\ LET paths == PathRecords
           pkgs == PackageRecords
       IN  \E m \in 1..Len(merged) :
               \E k \in Keys(merged[m].translations) :
                   /\ ProducersOf(paths, merged[m].name, k) # {}
                   /\ ProducersOf(pkgs, merged[m].name, k) # {}
                   /\ LastProduced(pkgs, merged[m].name, k) # Get(merged[m].translations, k)

===========================================================================
